---- MODULE Spec2Model ----
(***************************************************************************)
(* rustychip: a CHIP-8 virtual machine (src/src/cpu.rs) and the loop that  *)
(* drives it (src/src/main.rs).  The state is the CPU struct, one variable *)
(* per field; the operations are CPU::new (Init), CPU::load_rom,           *)
(* WindowWrapper::process_input and CPU::emulate_cycle.                    *)
(*                                                                         *)
(* memory and gfx are Vec<u8> of 4096 and 2048 bytes.  The model keeps the *)
(* bytes that are not 0: each is a function from the indices of its        *)
(* non-zero bytes to their values, read with ReadByte and written with     *)
(* WriteByte; an index outside the Vec is checked where the code indexes.  *)
(*                                                                         *)
(* A Rust panic (an index out of bounds, an arithmetic overflow in a build *)
(* with overflow checks) unwinds main and ends the process.  The model     *)
(* records it as status = "panicked" and keeps the fields of the CPU as    *)
(* they were before the operation that panicked; no further step is taken. *)
(***************************************************************************)
EXTENDS Integers, Sequences, FiniteSets, TLC

VARIABLES
    memory,               \* Vec<u8>, 4096 bytes (the non-zero ones)
    index_register,       \* u16
    gfx,                  \* Vec<u8>, 64 * 32 bytes (the non-zero ones)
    program_counter,      \* usize
    register,             \* Register.v: Vec<u8>, 16 bytes
    delay_timer,          \* u8
    sound_timer,          \* u8
    stack,                \* Vec<u16>, 16 entries
    stack_pointer,        \* usize
    keypad,               \* Vec<u8>, 16 bytes
    draw_flag,            \* bool
    debug_current_opcode, \* Opcode: the instruction of the last completed step
    status                \* "new" | "running" | "panicked"

vars == <<memory, index_register, gfx, program_counter, register, delay_timer,
          sound_timer, stack, stack_pointer, keypad, draw_flag,
          debug_current_opcode, status>>

----------------------------------------------------------------------------
(* Sizes and addresses fixed by the program.                               *)

MemSize == 4096
GfxSize == 2048
ScreenWidth == 64
ScreenHeight == 32
StackSize == 16
NumRegisters == 16
NumKeys == 16
RomStart == 512
NoKey == 20

FONTSET ==
    << 240, 144, 144, 144, 240,   32,  96,  32,  32, 112,
       240,  16, 240, 128, 240,  240,  16, 240,  16, 240,
       144, 144, 240,  16,  16,  240, 128, 240,  16, 240,
       240, 128, 240, 144, 240,  240,  16,  32,  64,  64,
       240, 144, 240, 144, 240,  240, 144, 240,  16, 240,
       240, 144, 240, 144, 144,  224, 144, 224, 144, 224,
       240, 128, 128, 128, 240,  224, 144, 144, 144, 224,
       240, 128, 240, 128, 240,  240, 128, 240, 128, 128 >>

----------------------------------------------------------------------------
(* Fixed-width arithmetic.                                                 *)

Byte == 0..255

Pow2(n) == 2 ^ n

\* u8::wrapping_add, u8::wrapping_sub
WrappingAdd(a, b) == (a + b) % 256
WrappingSub(a, b) == (a - b + 256) % 256

\* bit k (0 = least significant) of a
Bit(a, k) == (a \div Pow2(k)) % 2

\* a & b, a | b, a ^ b on w-bit values
BitAnd(a, b, w) ==
    LET s[k \in 0..w] ==
            IF k = w THEN 0
            ELSE (IF Bit(a, k) = 1 /\ Bit(b, k) = 1 THEN Pow2(k) ELSE 0) + s[k + 1]
    IN s[0]
BitOr(a, b, w) ==
    LET s[k \in 0..w] ==
            IF k = w THEN 0
            ELSE (IF Bit(a, k) = 1 \/ Bit(b, k) = 1 THEN Pow2(k) ELSE 0) + s[k + 1]
    IN s[0]
BitXor(a, b, w) ==
    LET s[k \in 0..w] ==
            IF k = w THEN 0
            ELSE (IF Bit(a, k) # Bit(b, k) THEN Pow2(k) ELSE 0) + s[k + 1]
    IN s[0]

----------------------------------------------------------------------------
(* A Vec<u8> as the function from the indices of its non-zero bytes.       *)

\* vec[i]
ReadByte(vec, i) == IF i \in DOMAIN vec THEN vec[i] ELSE 0

\* vec[i] = b
WriteByte(vec, i, b) ==
    IF b # 0 THEN (i :> b) @@ vec
    ELSE IF i \in DOMAIN vec THEN [j \in DOMAIN vec \ {i} |-> vec[j]]
    ELSE vec

\* vec![0; n]
Zeroed == [j \in {} |-> 0]

----------------------------------------------------------------------------
(* The CPU as one value, and CPU::new.                                     *)

Self ==
    [memory |-> memory, index_register |-> index_register, gfx |-> gfx,
     program_counter |-> program_counter, register |-> register,
     delay_timer |-> delay_timer, sound_timer |-> sound_timer,
     stack |-> stack, stack_pointer |-> stack_pointer, keypad |-> keypad,
     draw_flag |-> draw_flag, debug_current_opcode |-> debug_current_opcode,
     status |-> status]

Ignore == <<"Ignore">>

New ==
    [memory |-> [a \in {i \in 0..(Len(FONTSET) - 1) : FONTSET[i + 1] # 0} |->
                    FONTSET[a + 1]],
     keypad |-> [k \in 0..(NumKeys - 1) |-> 0],
     stack |-> [s \in 0..(StackSize - 1) |-> 0],
     gfx |-> Zeroed,
     delay_timer |-> 0,
     sound_timer |-> 0,
     stack_pointer |-> 0,
     index_register |-> 0,
     program_counter |-> RomStart,
     draw_flag |-> FALSE,
     register |-> [r \in 0..(NumRegisters - 1) |-> 0],
     debug_current_opcode |-> Ignore,
     status |-> "new"]

\* The operation panicked: the process ends.
Panic(c) == [c EXCEPT !.status = "panicked"]

----------------------------------------------------------------------------
(* CPU::fetch and CPU::decode.                                             *)

FetchPanics(c) == c.program_counter + 1 >= MemSize

Fetch(c) ==
    ReadByte(c.memory, c.program_counter) * 256
        + ReadByte(c.memory, c.program_counter + 1)

Decode(opcode) ==
    LET nib1 == opcode \div 4096
        nib2 == (opcode \div 256) % 16
        nib3 == (opcode \div 16) % 16
        nib4 == opcode % 16
        nnn  == opcode % 4096
        nn   == opcode % 256
    IN  CASE nib1 = 0 /\ nib2 = 0 /\ nib3 = 0 /\ nib4 = 0 -> Ignore
          [] nib1 = 0 /\ nib2 = 0 /\ nib3 = 14 /\ nib4 = 14 -> <<"ClearScreen">>
          [] nib1 = 0 /\ nib2 = 0 /\ nib3 = 14 /\ nib4 = 0 -> <<"Return">>
          [] nib1 = 1 -> <<"Jump", nnn>>
          [] nib1 = 2 -> <<"CallSubroutine", nnn>>
          [] nib1 = 3 -> <<"SkipIfEqualAddress", nib2, nn>>
          [] nib1 = 4 -> <<"SkipIfNotEqualAddress", nib2, nn>>
          [] nib1 = 5 /\ nib4 = 0 -> <<"SkipIfEqualRegister", nib2, nib3>>
          [] nib1 = 6 -> <<"SetRegister", nib2, nn>>
          [] nib1 = 7 -> <<"AddAddressToRegister", nib2, nn>>
          [] nib1 = 8 /\ nib4 = 0 -> <<"Assign", nib2, nib3>>
          [] nib1 = 8 /\ nib4 = 1 -> <<"AssignOr", nib2, nib3>>
          [] nib1 = 8 /\ nib4 = 2 -> <<"AssignAnd", nib2, nib3>>
          [] nib1 = 8 /\ nib4 = 3 -> <<"AssignXor", nib2, nib3>>
          [] nib1 = 8 /\ nib4 = 4 -> <<"Add", nib2, nib3>>
          [] nib1 = 8 /\ nib4 = 5 -> <<"Subtract", nib2, nib3>>
          [] nib1 = 8 /\ nib4 = 6 -> <<"LeastSigStoreAndShift", nib2, nib3>>
          [] nib1 = 8 /\ nib4 = 7 -> <<"SetSubtract", nib2, nib3>>
          [] nib1 = 8 /\ nib4 = 14 -> <<"MostSigStoreAndShift", nib2, nib3>>
          [] nib1 = 9 /\ nib4 = 0 -> <<"SkipIfUnequalRegisters", nib2, nib3>>
          [] nib1 = 10 -> <<"SetIndexRegister", nnn>>
          [] nib1 = 11 -> <<"Flow", nnn>>
          [] nib1 = 12 -> <<"Rand", nib2, nn>>
          [] nib1 = 13 -> <<"Display", nib2, nib3, nib4>>
          [] nib1 = 14 /\ nib3 = 9 /\ nib4 = 14 -> <<"SkipIfKeyPressed", nib2>>
          [] nib1 = 14 /\ nib3 = 10 /\ nib4 = 1 -> <<"SkipIfNotKeyPressed", nib2>>
          [] nib1 = 15 /\ nib3 = 0 /\ nib4 = 7 -> <<"GetDelayTimer", nib2>>
          [] nib1 = 15 /\ nib3 = 0 /\ nib4 = 10 -> <<"AwaitKeyPress", nib2>>
          [] nib1 = 15 /\ nib3 = 1 /\ nib4 = 5 -> <<"SetDelayTimer", nib2>>
          [] nib1 = 15 /\ nib3 = 1 /\ nib4 = 8 -> <<"SetSoundTimer", nib2>>
          [] nib1 = 15 /\ nib3 = 1 /\ nib4 = 14 -> <<"AddToIndexRegister", nib2>>
          [] nib1 = 15 /\ nib3 = 2 /\ nib4 = 9 ->
                <<"SetIndexRegisterToSpriteLocation", nib2>>
          [] nib1 = 15 /\ nib3 = 3 /\ nib4 = 3 -> <<"StoreBinaryCodedDecimal", nib2>>
          [] nib1 = 15 /\ nib3 = 5 /\ nib4 = 5 -> <<"RegisterDump", nib2>>
          [] nib1 = 15 /\ nib3 = 6 /\ nib4 = 5 -> <<"RegisterLoad", nib2>>
          [] OTHER -> <<"UNKNOWN", nib1, nib2, nib3, nib4>>

----------------------------------------------------------------------------
(* CPU::emulate, one operator per arm of the match.  Each takes the CPU    *)
(* after the timers were decremented and the draw flag reset.              *)

DecrementTimerUnguarded(t) == (t - 1) % 256

\* lines 202-210: a timer above 0 loses 1
DecrementTimer(t) == IF t > 0 THEN t - 1 ELSE t

ExecIgnore(c) == c

\* a clear-screen that zeroes the framebuffer and does not raise the draw flag
ExecClearScreenUnflagged(c) == [c EXCEPT !.gfx = Zeroed, !.program_counter = @ + 2]

ExecClearScreen(c) == [c EXCEPT !.program_counter = @ + 2]

\* self.stack[self.stack_pointer] is read before the pointer is decremented
ExecReturn(c) ==
    IF c.stack_pointer >= StackSize THEN Panic(c)
    ELSE [c EXCEPT !.program_counter = c.stack[c.stack_pointer],
                   !.stack_pointer = IF @ > 0 THEN @ - 1 ELSE @]

ExecJump(c, nnn) == [c EXCEPT !.program_counter = nnn]

ExecCallSubroutine(c, nnn) ==
    IF c.stack_pointer >= StackSize THEN Panic(c)
    ELSE [c EXCEPT !.stack[c.stack_pointer] = c.program_counter % 65536,
                   !.stack_pointer = @ + 1,
                   !.program_counter = nnn]

ExecSkipIfEqualAddress(c, x, nn) ==
    [c EXCEPT !.program_counter = @ + (IF c.register[x] = nn THEN 4 ELSE 2)]

ExecSkipIfNotEqualAddress(c, x, nn) ==
    [c EXCEPT !.program_counter = @ + (IF c.register[x] # nn THEN 4 ELSE 2)]

ExecSkipIfEqualRegister(c, x, y) ==
    [c EXCEPT !.program_counter =
                  @ + (IF c.register[x] = c.register[y] THEN 4 ELSE 2)]

ExecSetRegister(c, x, nn) ==
    [c EXCEPT !.register[x] = nn, !.program_counter = @ + 2]

ExecAddAddressToRegister(c, x, nn) ==
    [c EXCEPT !.register[x] = WrappingAdd(@, nn), !.program_counter = @ + 2]

ExecAssign(c, x, y) ==
    [c EXCEPT !.register[x] = c.register[y], !.program_counter = @ + 2]

ExecAssignOr(c, x, y) ==
    [c EXCEPT !.register[x] = BitOr(@, c.register[y], 8), !.program_counter = @ + 2]

ExecAssignAnd(c, x, y) ==
    [c EXCEPT !.register[x] = BitAnd(@, c.register[y], 8), !.program_counter = @ + 2]

ExecAssignXor(c, x, y) ==
    [c EXCEPT !.register[x] = BitXor(@, c.register[y], 8), !.program_counter = @ + 2]

\* The flag is written first; the sum then reads the registers again.
ExecAdd(c, x, y) ==
    LET flagged == [c.register EXCEPT
                       ![15] = IF c.register[x] > 255 - c.register[y] THEN 1 ELSE 0]
    IN  [c EXCEPT !.register = [flagged EXCEPT ![x] = WrappingAdd(flagged[x], flagged[y])],
                  !.program_counter = @ + 2]

ExecSubtractBorrowOnEqual(c, x, y) ==
    LET flagged == [c.register EXCEPT
                       ![15] = IF c.register[y] >= c.register[x] THEN 0 ELSE 1]
    IN  [c EXCEPT !.register = [flagged EXCEPT ![x] = WrappingSub(flagged[x], flagged[y])],
                  !.program_counter = @ + 2]

ExecSubtract(c, x, y) ==
    LET flagged == [c.register EXCEPT
                       ![15] = IF c.register[y] > c.register[x] THEN 0 ELSE 1]
    IN  [c EXCEPT !.register = [flagged EXCEPT ![x] = WrappingSub(flagged[x], flagged[y])],
                  !.program_counter = @ + 2]

ExecLeastSigStoreAndShift(c, x) ==
    LET flagged == [c.register EXCEPT ![15] = c.register[x] % 2]
    IN  [c EXCEPT !.register = [flagged EXCEPT ![x] = flagged[x] \div 2],
                  !.program_counter = @ + 2]

ExecSetSubtract(c, x, y) ==
    LET flagged == [c.register EXCEPT
                       ![15] = IF c.register[y] < c.register[x] THEN 0 ELSE 1]
    IN  [c EXCEPT !.register = [flagged EXCEPT ![x] = WrappingSub(flagged[y], flagged[x])],
                  !.program_counter = @ + 2]

ExecMostSigStoreAndShift(c, x) ==
    LET flagged == [c.register EXCEPT ![15] = c.register[x] \div 128]
    IN  [c EXCEPT !.register = [flagged EXCEPT ![x] = (flagged[x] * 2) % 256],
                  !.program_counter = @ + 2]

\* the arm adds 4 when the registers are equal
ExecSkipIfUnequalRegisters(c, x, y) ==
    [c EXCEPT !.program_counter =
                  @ + (IF c.register[x] = c.register[y] THEN 4 ELSE 2)]

ExecSetIndexRegister(c, nnn) ==
    [c EXCEPT !.index_register = nnn, !.program_counter = @ + 2]

\* memory[nnn] + v[0] is a u8 sum: with overflow checks it panics above 255,
\* without them it wraps.
ExecFlow(c, nnn, checked) ==
    LET sum == ReadByte(c.memory, nnn) + c.register[0]
    IN  IF sum > 255 /\ checked THEN Panic(c)
        ELSE [c EXCEPT !.index_register = sum % 256, !.program_counter = @ + 2]

ExecRand(c, x, nn, random) ==
    [c EXCEPT !.register[x] = BitAnd(random, ReadByte(c.memory, nn), 8),
              !.program_counter = @ + 2]

\* One row of a sprite: the inner loop over xline.  d is [gfx, vf, ok]; a
\* set bit whose index is outside gfx panics (ok = FALSE).
DrawRow(d, byte, vx, vy, yline) ==
    LET px[xline \in 0..8] ==
            IF xline = 0 THEN d
            ELSE LET prev == px[xline - 1]
                     col == xline - 1
                     index == vx + col + (vy + yline) * ScreenWidth
                 IN  IF ~prev.ok \/ Bit(byte, 7 - col) = 0 THEN prev
                     ELSE IF index >= GfxSize THEN [prev EXCEPT !.ok = FALSE]
                     ELSE [gfx |-> WriteByte(prev.gfx, index,
                                             BitXor(ReadByte(prev.gfx, index), 1, 8)),
                           vf |-> IF ReadByte(prev.gfx, index) = 1 THEN 1 ELSE prev.vf,
                           ok |-> TRUE]
    IN  px[8]

\* The outer loop over yline: the row's byte is read, VF is reset to 0, the
\* row is drawn.
ExecDisplay(c, x, y, n) ==
    LET vx == c.register[x]
        vy == c.register[y]
        rows[k \in 0..n] ==
            IF k = 0 THEN [gfx |-> c.gfx, vf |-> c.register[15], ok |-> TRUE]
            ELSE LET prev == rows[k - 1]
                     yline == k - 1
                     addr == c.index_register + yline
                 IN  IF ~prev.ok THEN prev
                     ELSE IF addr >= MemSize THEN [prev EXCEPT !.ok = FALSE]
                     ELSE DrawRow([prev EXCEPT !.vf = 0], ReadByte(c.memory, addr),
                                  vx, vy, yline)
        drawn == rows[n]
    IN  IF ~drawn.ok THEN Panic(c)
        ELSE [c EXCEPT !.gfx = drawn.gfx,
                       !.register[15] = drawn.vf,
                       !.draw_flag = TRUE,
                       !.program_counter = @ + 2]

\* keypad[v[x]] panics when v[x] is no key index
ExecSkipIfKeyPressed(c, x) ==
    IF c.register[x] >= NumKeys THEN Panic(c)
    ELSE [c EXCEPT !.program_counter =
                       @ + (IF c.keypad[c.register[x]] # 0 THEN 4 ELSE 2)]

ExecSkipIfNotKeyPressed(c, x) ==
    IF c.register[x] >= NumKeys THEN Panic(c)
    ELSE [c EXCEPT !.program_counter =
                       @ + (IF c.keypad[c.register[x]] = 0 THEN 4 ELSE 2)]

ExecGetDelayTimer(c, x) ==
    [c EXCEPT !.register[x] = c.delay_timer, !.program_counter = @ + 2]

\* a key wait that compares the keypad entries with 2 and so sees no press
ExecAwaitKeyPressDeaf(c, x) ==
    LET pressed_key == IF \E k \in 0..(NumKeys - 1) : c.keypad[k] = 2
                       THEN 2 ELSE NoKey
    IN  IF pressed_key # NoKey
        THEN [c EXCEPT !.register[x] = pressed_key, !.program_counter = @ + 2]
        ELSE c

\* a key wait that goes on although no key is pressed
ExecAwaitKeyPressNoWait(c, x) ==
    LET pressed_key == IF \E k \in 0..(NumKeys - 1) : c.keypad[k] = 1
                       THEN 1 ELSE NoKey
    IN  [c EXCEPT !.register[x] = IF pressed_key # NoKey THEN pressed_key ELSE @,
                  !.program_counter = @ + 2]

\* pressed_key starts at 20 and takes the VALUE of each keypad entry equal to 1
ExecAwaitKeyPress(c, x) ==
    LET pressed_key == IF \E k \in 0..(NumKeys - 1) : c.keypad[k] = 1
                       THEN 1 ELSE NoKey
    IN  IF pressed_key # NoKey
        THEN [c EXCEPT !.register[x] = pressed_key, !.program_counter = @ + 2]
        ELSE c

ExecSetDelayTimer(c, x) ==
    [c EXCEPT !.delay_timer = c.register[x], !.program_counter = @ + 2]

ExecSetSoundTimer(c, x) ==
    [c EXCEPT !.sound_timer = c.register[x], !.program_counter = @ + 2]

\* a u16 sum
ExecAddToIndexRegister(c, x, checked) ==
    LET sum == c.index_register + c.register[x]
    IN  IF sum > 65535 /\ checked THEN Panic(c)
        ELSE [c EXCEPT !.index_register = sum % 65536, !.program_counter = @ + 2]

\* v[x] * 5 is a u8 product
ExecSetIndexRegisterToSpriteLocation(c, x, checked) ==
    LET product == c.register[x] * 5
    IN  IF product > 255 /\ checked THEN Panic(c)
        ELSE [c EXCEPT !.index_register = product % 256, !.program_counter = @ + 2]

\* The arms of Fx33, Fx55 and Fx65 receive the register index n1 of decode
\* and take (n1 & 0x0F00) >> 8 of it as x.
MaskedIndex(pc) == (pc \div 256) % 16

\* memory[I] is written, then memory[I + 1] twice
ExecStoreBinaryCodedDecimal(c, pc) ==
    LET x == MaskedIndex(pc)
        vx == c.register[x]
        i == c.index_register
    IN  IF i + 1 >= MemSize THEN Panic(c)
        ELSE [c EXCEPT !.memory =
                           WriteByte(WriteByte(WriteByte(@, i, vx \div 100),
                                               i + 1, (vx % 100) \div 10),
                                     i + 1, vx % 10),
                       !.program_counter = @ + 2]

\* for i in 0..x { memory[I + i] = v[i] }
RECURSIVE DumpLoop(_, _, _, _, _)
DumpLoop(mem, v, i0, i, x) ==
    IF i >= x THEN mem
    ELSE DumpLoop(WriteByte(mem, i0 + i, v[i]), v, i0, i + 1, x)

ExecRegisterDump(c, pc) ==
    LET x == MaskedIndex(pc)
        i0 == c.index_register
    IN  IF x > 0 /\ i0 + x - 1 >= MemSize THEN Panic(c)
        ELSE [c EXCEPT !.memory = DumpLoop(@, c.register, i0, 0, x),
                       !.program_counter = @ + 2]

\* for i in 0..x { v[i] = memory[I + i] }
RECURSIVE LoadLoop(_, _, _, _, _)
LoadLoop(v, mem, i0, i, x) ==
    IF i >= x THEN v
    ELSE LoadLoop([v EXCEPT ![i] = ReadByte(mem, i0 + i)], mem, i0, i + 1, x)

ExecRegisterLoad(c, pc) ==
    LET x == MaskedIndex(pc)
        i0 == c.index_register
    IN  IF x > 0 /\ i0 + x - 1 >= MemSize THEN Panic(c)
        ELSE [c EXCEPT !.register = LoadLoop(@, c.memory, i0, 0, x),
                       !.program_counter = @ + 2]

\* println! only
ExecUnknown(c) == c

Execute(c, opcode, random, checked) ==
    LET op == opcode[1]
    IN  CASE op = "Ignore" -> ExecIgnore(c)
          [] op = "ClearScreen" -> ExecClearScreen(c)
          [] op = "Return" -> ExecReturn(c)
          [] op = "Jump" -> ExecJump(c, opcode[2])
          [] op = "CallSubroutine" -> ExecCallSubroutine(c, opcode[2])
          [] op = "SkipIfEqualAddress" -> ExecSkipIfEqualAddress(c, opcode[2], opcode[3])
          [] op = "SkipIfNotEqualAddress" ->
                ExecSkipIfNotEqualAddress(c, opcode[2], opcode[3])
          [] op = "SkipIfEqualRegister" -> ExecSkipIfEqualRegister(c, opcode[2], opcode[3])
          [] op = "SetRegister" -> ExecSetRegister(c, opcode[2], opcode[3])
          [] op = "AddAddressToRegister" ->
                ExecAddAddressToRegister(c, opcode[2], opcode[3])
          [] op = "Assign" -> ExecAssign(c, opcode[2], opcode[3])
          [] op = "AssignOr" -> ExecAssignOr(c, opcode[2], opcode[3])
          [] op = "AssignAnd" -> ExecAssignAnd(c, opcode[2], opcode[3])
          [] op = "AssignXor" -> ExecAssignXor(c, opcode[2], opcode[3])
          [] op = "Add" -> ExecAdd(c, opcode[2], opcode[3])
          [] op = "Subtract" -> ExecSubtract(c, opcode[2], opcode[3])
          [] op = "LeastSigStoreAndShift" -> ExecLeastSigStoreAndShift(c, opcode[2])
          [] op = "SetSubtract" -> ExecSetSubtract(c, opcode[2], opcode[3])
          [] op = "MostSigStoreAndShift" -> ExecMostSigStoreAndShift(c, opcode[2])
          [] op = "SkipIfUnequalRegisters" ->
                ExecSkipIfUnequalRegisters(c, opcode[2], opcode[3])
          [] op = "SetIndexRegister" -> ExecSetIndexRegister(c, opcode[2])
          [] op = "Flow" -> ExecFlow(c, opcode[2], checked)
          [] op = "Rand" -> ExecRand(c, opcode[2], opcode[3], random)
          [] op = "Display" -> ExecDisplay(c, opcode[2], opcode[3], opcode[4])
          [] op = "SkipIfKeyPressed" -> ExecSkipIfKeyPressed(c, opcode[2])
          [] op = "SkipIfNotKeyPressed" -> ExecSkipIfNotKeyPressed(c, opcode[2])
          [] op = "GetDelayTimer" -> ExecGetDelayTimer(c, opcode[2])
          [] op = "AwaitKeyPress" -> ExecAwaitKeyPress(c, opcode[2])
          [] op = "SetDelayTimer" -> ExecSetDelayTimer(c, opcode[2])
          [] op = "SetSoundTimer" -> ExecSetSoundTimer(c, opcode[2])
          [] op = "AddToIndexRegister" -> ExecAddToIndexRegister(c, opcode[2], checked)
          [] op = "SetIndexRegisterToSpriteLocation" ->
                ExecSetIndexRegisterToSpriteLocation(c, opcode[2], checked)
          [] op = "StoreBinaryCodedDecimal" -> ExecStoreBinaryCodedDecimal(c, opcode[2])
          [] op = "RegisterDump" -> ExecRegisterDump(c, opcode[2])
          [] op = "RegisterLoad" -> ExecRegisterLoad(c, opcode[2])
          [] op = "UNKNOWN" -> ExecUnknown(c)

\* emulate without the reset of the draw flag
EmulateKeepDrawFlag(c, opcode, random, checked) ==
    LET ticked == [c EXCEPT !.delay_timer = DecrementTimer(@),
                            !.sound_timer = DecrementTimer(@)]
        done == Execute(ticked, opcode, random, checked)
    IN  IF done.status = "panicked" THEN Panic(c)
        ELSE [done EXCEPT !.debug_current_opcode = opcode]

\* CPU::emulate: the timers, the draw flag, the match, debug_current_opcode.
\* random is the byte rand::random() returns; checked tells whether the build
\* checks arithmetic overflow (a debug build does, a release build wraps).
Emulate(c, opcode, random, checked) ==
    LET ticked == [c EXCEPT !.delay_timer = DecrementTimer(@),
                            !.sound_timer = DecrementTimer(@),
                            !.draw_flag = FALSE]
        done == Execute(ticked, opcode, random, checked)
    IN  IF done.status = "panicked" THEN Panic(c)
        ELSE [done EXCEPT !.debug_current_opcode = opcode]

\* CPU::emulate_cycle: fetch, decode, emulate; decoded_opc is the value decode
\* returned, computed once
EmulateCycleOf(c, random, checked) ==
    IF FetchPanics(c) THEN Panic(c)
    ELSE CHOOSE done \in {Emulate(c, decoded_opc, random, checked) :
                              decoded_opc \in {Decode(Fetch(c))}} : TRUE

\* the loop of load_rom: memory[0x200 + i] = rom[i] for i in 0..rom.len();
\* the bytes of the rom replace those at 0x200.., the others stay
CopyRom(mem, rom) ==
    LET copied == RomStart..(RomStart + Len(rom) - 1)
        byte(a) == IF a \in copied THEN rom[a - RomStart + 1] ELSE mem[a]
    IN  [a \in {j \in (DOMAIN mem \ copied) \cup copied : byte(j) # 0} |-> byte(a)]

\* CPU::load_rom; a rom that reaches beyond the memory panics at the first
\* byte that does not fit
LoadRomOf(c, rom) ==
    IF RomStart + Len(rom) > MemSize THEN Panic(c)
    ELSE [c EXCEPT !.memory = CopyRom(@, rom), !.status = "running"]

\* WindowWrapper::process_input: keypad[k] = new_value
ProcessInputOf(c, k, new_value) == [c EXCEPT !.keypad[k] = new_value]

----------------------------------------------------------------------------
(* The programs explored.  A ROM is a sequence of bytes; instructions are  *)
(* written by their nibbles.                                               *)

Word(n1, n2, n3, n4) == <<n1 * 16 + n2, n3 * 16 + n4>>
XNN(n1, x, nn) == <<n1 * 16 + x, nn>>
NNN(n1, nnn) == <<n1 * 16 + (nnn \div 256), nnn % 256>>

\* the address of the k-th instruction (k = 0, 1, ...) of a ROM
At(k) == RomStart + 2 * k

MaxCallDepth == 17

ByteSamples == {0, 1, 2, 3, 5, 10, 127, 128, 129, 254, 255}
RegisterPairs == {<<0, 1>>, <<2, 2>>, <<14, 3>>}
TimerSamples == {0, 1, 2, 5}
KeySamples == {0, 7, 15}
AluNibbles == {0, 1, 2, 3, 4, 5, 6, 7, 14}
FlagNibbles == {4, 5, 6, 7, 14}

\* depth nested calls, each to the instruction after it, then the opcode ret
RECURSIVE CallChain(_, _)
CallChain(k, depth) ==
    IF k = depth THEN <<>> ELSE NNN(2, At(k + 1)) \o CallChain(k + 1, depth)

CallChainRoms ==
    {CallChain(0, depth) \o ret \o NNN(1, At(depth + 1)) :
        depth \in 0..MaxCallDepth, ret \in {Word(0, 0, 14, 0), Word(0, 0, 14, 14)}}

\* a call to a subroutine two instructions further, which returns at once
CallReturnRoms ==
    {XNN(6, 0, 1) \o NNN(2, At(3)) \o XNN(6, 1, 2) \o ret :
        ret \in {Word(0, 0, 14, 0), Word(0, 0, 14, 14)}}

\* one instruction, run from the state new() leaves
OpcodeSamples ==
    {Word(0, 0, 0, 0), Word(0, 0, 14, 14), Word(0, 0, 14, 0), Word(0, 0, 15, 15),
     Word(0, 1, 2, 3), Word(1, 2, 0, 8), Word(2, 2, 0, 8), Word(3, 0, 0, 0),
     Word(4, 0, 0, 0), Word(5, 0, 1, 0), Word(5, 0, 1, 1), Word(6, 3, 4, 2),
     Word(7, 3, 4, 2), Word(8, 0, 1, 8), Word(8, 0, 1, 15), Word(9, 0, 1, 0),
     Word(9, 0, 1, 1), Word(10, 3, 0, 0), Word(11, 3, 0, 0), Word(12, 1, 15, 0),
     Word(13, 0, 1, 5), Word(13, 0, 1, 0), Word(14, 0, 9, 14), Word(14, 0, 10, 1),
     Word(14, 0, 0, 0), Word(15, 0, 0, 7), Word(15, 0, 0, 10), Word(15, 0, 1, 5),
     Word(15, 0, 1, 8), Word(15, 0, 1, 14), Word(15, 0, 2, 9), Word(15, 0, 3, 3),
     Word(15, 2, 5, 5), Word(15, 2, 6, 5), Word(15, 0, 15, 15)}
    \cup {Word(8, 1, 2, k) : k \in AluNibbles}

OneOpRoms == OpcodeSamples

\* both timers are set to 3, then one instruction runs while they run down
TimedOpRoms ==
    {XNN(6, 5, 3) \o Word(15, 5, 1, 5) \o Word(15, 5, 1, 8) \o op : op \in OpcodeSamples}

\* Vx and Vy are set, then add, subtract, shift right, reverse subtract or
\* shift left runs
AluRoms ==
    {XNN(6, xy[1], a) \o XNN(6, xy[2], b) \o Word(8, xy[1], xy[2], k) :
        xy \in RegisterPairs, a \in ByteSamples, b \in ByteSamples, k \in FlagNibbles}

\* Vx and Vy are set, then one of the four skips runs
SkipWord(n1, x, y) == IF n1 \in {3, 4} THEN XNN(n1, x, 5) ELSE Word(n1, x, y, 0)

SkipRoms ==
    {XNN(6, xy[1], a) \o XNN(6, xy[2], b) \o SkipWord(n1, xy[1], xy[2]) :
        xy \in RegisterPairs, a \in {0, 5, 255}, b \in {0, 5, 6}, n1 \in {3, 4, 5, 9}}

\* both timers are set, then instructions that set no timer run: an add, a
\* read of the delay timer, a key wait, an unknown instruction
TimerRoms ==
    {XNN(6, 0, d) \o Word(15, 0, 1, 5) \o XNN(6, 1, s) \o Word(15, 1, 1, 8)
        \o XNN(7, 2, 1) \o Word(15, 3, 0, 7) \o Word(15, 4, 0, 10) \o tail :
        d \in TimerSamples, s \in TimerSamples,
        tail \in {Word(0, 0, 15, 15), Word(0, 0, 0, 0)}}

\* a one-row sprite, stored behind the program, is drawn twice at (Vx, Vy)
DrawRoms ==
    {XNN(6, 0, vx) \o XNN(6, 1, vy) \o NNN(10, At(6)) \o Word(13, 0, 1, 1)
        \o Word(13, 0, 1, 1) \o NNN(1, At(5)) \o <<sprite>> :
        vx \in {0, 10, 56, 57, 60, 63}, vy \in {0, 5, 31},
        sprite \in {128, 192, 255, 1, 129}}

\* Vx and V0 are set, I is set, Fx33 runs
BcdRoms ==
    {XNN(6, 0, 42) \o XNN(6, x, v) \o NNN(10, 768) \o Word(15, x, 3, 3) :
        x \in {0, 1, 5, 15}, v \in {0, 7, 99, 100, 234, 255}}

\* V0..Vx are set to DumpValue, dumped at I, zeroed, loaded from I
DumpValue(seed, i) == (seed + 13 * i) % 256

RECURSIVE SetRegisters(_, _, _, _)
SetRegisters(i, x, seed, zero) ==
    IF i > x THEN <<>>
    ELSE XNN(6, i, IF zero THEN 0 ELSE DumpValue(seed, i))
            \o SetRegisters(i + 1, x, seed, zero)

DumpLoadRom(x, seed) ==
    SetRegisters(0, x, seed, FALSE) \o NNN(10, 768) \o Word(15, x, 5, 5)
        \o SetRegisters(0, x, seed, TRUE) \o Word(15, x, 6, 5)

DumpSeeds == {1, 200}

DumpLoadRoms == {DumpLoadRom(x, seed) : x \in 0..(NumRegisters - 1), seed \in DumpSeeds}

\* the font sprite of the digit 0 is drawn at (Vx, Vy), then 00E0 or 00EE runs
ClearRoms ==
    {XNN(6, 0, vx) \o XNN(6, 1, vy) \o NNN(10, 0) \o Word(13, 0, 1, 5) \o clear :
        vx \in {0, 20}, vy \in {0, 10},
        clear \in {Word(0, 0, 14, 0), Word(0, 0, 14, 14)}}

\* Cxnn with immediates that address a font byte, a zero byte, a byte of value nn
RandRoms == {XNN(12, x, nn) : x \in {0, 15}, nn \in {0, 1, 4, 15, 79, 80, 240, 255}}

\* VF is set to vf, then Dxy0 draws no row
EmptyDrawRoms == {XNN(6, 15, vf) \o Word(13, 0, 1, 0) : vf \in {0, 1}}

\* a two-row sprite, stored behind the program, is drawn twice at (Vx, Vy)
TwoRowSprites == {<<128, 0>>, <<0, 128>>, <<128, 128>>, <<195, 60>>}

CollisionRoms ==
    {XNN(6, 0, vx) \o XNN(6, 1, vy) \o NNN(10, At(6)) \o Word(13, 0, 1, 2)
        \o Word(13, 0, 1, 2) \o NNN(1, At(5)) \o sprite :
        vx \in {0, 30, 60}, vy \in {0, 30, 31}, sprite \in TwoRowSprites}

\* V0 is set, then Bnnn runs with nnn at a font byte, a zero byte, the program
FlowRoms ==
    {XNN(6, 0, v0) \o NNN(11, nnn) : v0 \in {0, 5, 16, 255}, nnn \in {0, 2, 768, At(0)}}

\* add, subtract, shift right, reverse subtract and shift left with VF as
\* Vx, as Vy, as both
VfPairs == {<<15, 1>>, <<1, 15>>, <<15, 15>>}

VfAluRoms ==
    {XNN(6, xy[1], a) \o XNN(6, xy[2], b) \o Word(8, xy[1], xy[2], k) :
        xy \in VfPairs, a \in {0, 1, 2, 128, 255}, b \in {0, 1, 2, 128, 255},
        k \in FlagNibbles}

\* a key wait, at the start or behind the two timers set to 3, followed by
\* nothing, by a second key wait, or by a jump back to the start
KeyWaitRoms ==
    {prefix \o Word(15, x, 0, 10) \o suffix :
        prefix \in {<<>>, XNN(6, 5, 3) \o Word(15, 5, 1, 5) \o Word(15, 5, 1, 8)},
        x \in {0, 4},
        suffix \in {<<>>, Word(15, 1, 0, 10), NNN(1, At(0))}}

\* one byte more than fits between 0x200 and 0xFFF
OverlongRom == [i \in 1..(MemSize - RomStart + 1) |-> 0]

Roms ==
    CallChainRoms \cup CallReturnRoms \cup OneOpRoms \cup TimedOpRoms \cup AluRoms \cup SkipRoms
        \cup TimerRoms \cup DrawRoms \cup BcdRoms \cup DumpLoadRoms \cup {OverlongRom}
        \cup ClearRoms \cup RandRoms \cup EmptyDrawRoms \cup CollisionRoms
        \cup FlowRoms \cup VfAluRoms \cup KeyWaitRoms

----------------------------------------------------------------------------
(* The state machine: main creates the CPU, loads the ROM, and then, for   *)
(* every window event, passes key presses and releases to the keypad and   *)
(* runs emulate_cycle.                                                     *)

Init ==
    /\ memory = New.memory
    /\ index_register = New.index_register
    /\ gfx = New.gfx
    /\ program_counter = New.program_counter
    /\ register = New.register
    /\ delay_timer = New.delay_timer
    /\ sound_timer = New.sound_timer
    /\ stack = New.stack
    /\ stack_pointer = New.stack_pointer
    /\ keypad = New.keypad
    /\ draw_flag = New.draw_flag
    /\ debug_current_opcode = New.debug_current_opcode
    /\ status = New.status

Assign(c) ==
    /\ memory' = c.memory
    /\ index_register' = c.index_register
    /\ gfx' = c.gfx
    /\ program_counter' = c.program_counter
    /\ register' = c.register
    /\ delay_timer' = c.delay_timer
    /\ sound_timer' = c.sound_timer
    /\ stack' = c.stack
    /\ stack_pointer' = c.stack_pointer
    /\ keypad' = c.keypad
    /\ draw_flag' = c.draw_flag
    /\ debug_current_opcode' = c.debug_current_opcode
    /\ status' = c.status

\* the instruction the next emulate_cycle executes
NextOpcode(c) == IF FetchPanics(c) THEN Ignore ELSE Decode(Fetch(c))

ReadsKeypad(opcode) ==
    opcode[1] \in {"SkipIfKeyPressed", "SkipIfNotKeyPressed", "AwaitKeyPress"}

\* the bytes rand::random() can return, where the instruction draws one
RandomBytes(opcode) == IF opcode[1] = "Rand" THEN Byte ELSE {0}

\* Whether the build checks arithmetic overflow decides the outcome of three
\* instructions; both builds are explored there.
OverflowChecks(opcode) ==
    IF opcode[1] \in {"Flow", "AddToIndexRegister", "SetIndexRegisterToSpriteLocation"}
    THEN BOOLEAN ELSE {TRUE}

LoadRom ==
    /\ status = "new"
    /\ \E rom \in Roms : \E c \in {LoadRomOf(Self, rom)} : Assign(c)

\* Key events are explored where the next instruction reads the keypad: no
\* other instruction reads it, so an event delivered earlier has the effect of
\* one delivered there.
ProcessInput ==
    /\ status = "running"
    /\ ReadsKeypad(NextOpcode(Self))
    /\ \E k \in KeySamples, new_value \in {0, 1} :
          \E c \in {ProcessInputOf(Self, k, new_value)} : Assign(c)

EmulateCycle ==
    /\ status = "running"
    /\ \E random \in RandomBytes(NextOpcode(Self)),
          checked \in OverflowChecks(NextOpcode(Self)) :
          \E c \in {EmulateCycleOf(Self, random, checked)} : Assign(c)

Next == LoadRom \/ ProcessInput \/ EmulateCycle

Spec == Init /\ [][Next]_vars

\* main's loop calls emulate_cycle for every event the window delivers, and
\* the window keeps delivering events: a step that can be taken is taken.
\* Key events come as the user makes them, under no obligation.
\* The runs of the programs that wait for a key.
LoadKeyWaitRom ==
    /\ status = "new"
    /\ \E rom \in KeyWaitRoms : \E c \in {LoadRomOf(Self, rom)} : Assign(c)

KeyWaitNext == LoadKeyWaitRom \/ ProcessInput \/ EmulateCycle

FairSpec == Init /\ [][KeyWaitNext]_vars /\ WF_vars(EmulateCycle)

----------------------------------------------------------------------------
(* Properties.                                                             *)

Running == status = "running"

\* rom is what load_rom wrote at 0x200
RomLoaded(rom) ==
    \A i \in 1..Len(rom) : ReadByte(memory, RomStart + i - 1) = rom[i]

Max(a, b) == IF a >= b THEN a ELSE b

\* emulate_cycle in a build that checks overflow, for instructions that draw
\* no random byte
StepOf(c) == EmulateCycleOf(c, 0, TRUE)

\* the next instruction is a return: the opcode 00EE of the instruction set,
\* or the opcode the decoder maps to the Return variant
AtReturn(c) ==
    /\ c.status = "running"
    /\ ~FetchPanics(c)
    /\ (Fetch(c) = 238 \/ Decode(Fetch(c))[1] = "Return")

\* C1: from every reachable state with stack pointer s < 16 and PC = p whose
\* next instruction is a call 2nnn to a return instruction, the call followed
\* by the return leaves PC at p + 2 and the stack pointer at s.
C1_CallReturnRoundTrip ==
    (/\ Running
     /\ stack_pointer < StackSize
     /\ NextOpcode(Self)[1] = "CallSubroutine"
     /\ AtReturn(StepOf(Self)))
    => LET returned == StepOf(StepOf(Self))
       IN  /\ returned.status = "running"
           /\ returned.program_counter = program_counter + 2
           /\ returned.stack_pointer = stack_pointer

\* C2: a step that executes a call or a return completes (it does not end
\* the process on a stack access outside slots 0..15), whatever the stack
\* pointer is, 0 and 16 included.
C2_StackStepsComplete ==
    [][(/\ Running
        /\ NextOpcode(Self)[1] \in {"CallSubroutine", "Return"}
        /\ EmulateCycle)
       => status' = "running"]_vars

\* C3: a step whose opcode decodes to the unknown variant advances PC by
\* exactly 2 and changes no register, memory, stack or framebuffer state.
C3_UnknownAdvances ==
    [][(/\ Running
        /\ NextOpcode(Self)[1] = "UNKNOWN"
        /\ EmulateCycle)
       => /\ program_counter' = program_counter + 2
          /\ register' = register
          /\ index_register' = index_register
          /\ memory' = memory
          /\ stack' = stack
          /\ stack_pointer' = stack_pointer
          /\ gfx' = gfx]_vars

\* C4: every completed step that executes neither Fx15 nor Fx18, a stalled
\* Fx0A included, takes delay_timer from d to max(d - 1, 0) and sound_timer
\* from s to max(s - 1, 0), so N such steps take them to max(d - N, 0) and
\* max(s - N, 0); neither timer leaves 0..255.
C4_TimerDecay ==
    [][(/\ Running
        /\ EmulateCycle
        /\ status' = "running"
        /\ NextOpcode(Self)[1] \notin {"SetDelayTimer", "SetSoundTimer"})
       => /\ delay_timer' = Max(delay_timer - 1, 0)
          /\ sound_timer' = Max(sound_timer - 1, 0)
          /\ delay_timer' \in Byte
          /\ sound_timer' \in Byte]_vars

\* a key wait is stalled with the delay timer at its floor and the sound
\* timer still running down
C4_Witness ==
    /\ Running
    /\ NextOpcode(Self)[1] = "AwaitKeyPress"
    /\ debug_current_opcode[1] = "AwaitKeyPress"
    /\ delay_timer = 0
    /\ sound_timer = 1

\* the nibbles of the opcode at PC
Nib1(c) == Fetch(c) \div 4096
Nib2(c) == (Fetch(c) \div 256) % 16
Nib3(c) == (Fetch(c) \div 16) % 16
Nib4(c) == Fetch(c) % 16

\* the reference semantics of 8xy4, 8xy5, 8xy6, 8xy7 and 8xyE, by the last
\* nibble of the opcode
AluReference(n, vx, vy) ==
    CASE n = 4 -> [result |-> (vx + vy) % 256, flag |-> IF vx + vy > 255 THEN 1 ELSE 0]
      [] n = 5 -> [result |-> (vx - vy) % 256, flag |-> IF vy > vx THEN 0 ELSE 1]
      [] n = 7 -> [result |-> (vy - vx) % 256, flag |-> IF vy < vx THEN 0 ELSE 1]
      [] n = 6 -> [result |-> vx \div 2, flag |-> vx % 2]
      [] n = 14 -> [result |-> (vx * 2) % 256, flag |-> vx \div 128]

\* C5: with x and y different from F, add, subtract, reverse subtract, shift
\* right and shift left give the reference result in Vx and the reference
\* flag in VF, and advance PC by 2.
C5_AluReference ==
    [][(/\ Running
        /\ ~FetchPanics(Self)
        /\ Nib1(Self) = 8
        /\ Nib4(Self) \in FlagNibbles
        /\ Nib2(Self) # 15
        /\ Nib3(Self) # 15
        /\ EmulateCycle)
       => LET x == Nib2(Self)
              y == Nib3(Self)
              ref == AluReference(Nib4(Self), register[x], register[y])
          IN  /\ register'[x] = ref.result
              /\ register'[15] = ref.flag
              /\ \A r \in 0..(NumRegisters - 1) \ {x, 15} : register'[r] = register[r]
              /\ program_counter' = program_counter + 2]_vars

\* 255 + 1 was added: the sum wrapped to 0 and the carry is set
C5_Witness ==
    /\ Running
    /\ debug_current_opcode = <<"Add", 0, 1>>
    /\ register[0] = 0
    /\ register[1] = 1
    /\ register[15] = 1

\* the framebuffer with every pixel off
Cleared(g) == \A p \in 0..(GfxSize - 1) : ReadByte(g, p) = 0

\* the framebuffer that shows only the one-row sprite byte at (vx, vy):
\* the pixel of column col is at ((vy mod 32) * 64) + ((vx + col) mod 64)
SpritePixels(vx, vy, byte) ==
    LET lit == {(vy % ScreenHeight) * ScreenWidth + ((vx + col) % ScreenWidth) :
                    col \in {k \in 0..7 : Bit(byte, 7 - k) = 1}}
    IN  [p \in lit |-> 1]

\* C6: drawing a one-row sprite with a set bit at an on-screen position sets
\* exactly the sprite's pixels with VF = 0 on a cleared framebuffer, and
\* drawn again over itself returns every pixel to 0 with VF = 1.
C6_DrawToggles ==
    [][(/\ Running
        /\ ~FetchPanics(Self)
        /\ Nib1(Self) = 13
        /\ Nib4(Self) = 1
        /\ index_register < MemSize
        /\ ReadByte(memory, index_register) # 0
        /\ register[Nib2(Self)] < ScreenWidth
        /\ register[Nib3(Self)] < ScreenHeight
        /\ EmulateCycle)
       => LET sprite == SpritePixels(register[Nib2(Self)], register[Nib3(Self)],
                                     ReadByte(memory, index_register))
          IN  /\ Cleared(gfx) =>
                    (status' = "running" /\ gfx' = sprite /\ register'[15] = 0)
              /\ gfx = sprite =>
                    (status' = "running" /\ Cleared(gfx') /\ register'[15] = 1)]_vars

\* C7: Fx33 writes the hundreds, tens and ones digit of Vx, x being the
\* register the opcode names, to memory[I], memory[I + 1] and memory[I + 2],
\* and changes no other byte of memory.
C7_BcdStore ==
    [][(/\ Running
        /\ ~FetchPanics(Self)
        /\ Nib1(Self) = 15
        /\ Fetch(Self) % 256 = 51
        /\ index_register + 2 < MemSize
        /\ EmulateCycle)
       => LET v == register[Nib2(Self)]
          IN  \A a \in 0..(MemSize - 1) :
                  ReadByte(memory', a) =
                      CASE a = index_register -> v \div 100
                        [] a = index_register + 1 -> (v \div 10) % 10
                        [] a = index_register + 2 -> v % 10
                        [] OTHER -> ReadByte(memory, a)]_vars

\* C8: after the program that sets V0..Vx, dumps them with Fx55 at I, sets
\* V0..Vx to zero and loads them with Fx65 from the same I, V0..Vx hold the
\* values they were set to, for every x in 0..15.
C8_DumpLoadRoundTrip ==
    \A x \in 0..(NumRegisters - 1), seed \in DumpSeeds :
        (/\ Running
         /\ program_counter = RomStart + Len(DumpLoadRom(x, seed))
         /\ debug_current_opcode[1] = "RegisterLoad"
         /\ RomLoaded(DumpLoadRom(x, seed)))
        => \A i \in 0..x : register[i] = DumpValue(seed, i)

\* the condition under which the skip instruction opcode skips
SkipCondition(opcode, v) ==
    LET n1 == opcode \div 4096
        x == (opcode \div 256) % 16
        y == (opcode \div 16) % 16
        nn == opcode % 256
    IN  CASE n1 = 3 -> v[x] = nn
          [] n1 = 4 -> v[x] # nn
          [] n1 = 5 -> v[x] = v[y]
          [] n1 = 9 -> v[x] # v[y]

\* C9: 3xnn, 4xnn, 5xy0 and 9xy0 advance PC by 4 when their condition holds
\* and by 2 when it does not.
C9_Skips ==
    [][(/\ Running
        /\ ~FetchPanics(Self)
        /\ \/ Nib1(Self) \in {3, 4}
           \/ Nib1(Self) \in {5, 9} /\ Nib4(Self) = 0
        /\ EmulateCycle)
       => program_counter' =
              program_counter + (IF SkipCondition(Fetch(Self), register) THEN 4 ELSE 2)]_vars

\* the opcode table of the instruction set
TableDecode(opcode) ==
    LET n1 == opcode \div 4096
        x == (opcode \div 256) % 16
        y == (opcode \div 16) % 16
        n == opcode % 16
        nnn == opcode % 4096
        nn == opcode % 256
    IN  CASE opcode = 0 -> <<"Ignore">>
          [] opcode = 238 -> <<"Return">>
          [] opcode = 224 -> <<"ClearScreen">>
          [] n1 = 1 -> <<"Jump", nnn>>
          [] n1 = 2 -> <<"CallSubroutine", nnn>>
          [] n1 = 3 -> <<"SkipIfEqualAddress", x, nn>>
          [] n1 = 4 -> <<"SkipIfNotEqualAddress", x, nn>>
          [] n1 = 5 /\ n = 0 -> <<"SkipIfEqualRegister", x, y>>
          [] n1 = 6 -> <<"SetRegister", x, nn>>
          [] n1 = 7 -> <<"AddAddressToRegister", x, nn>>
          [] n1 = 8 /\ n \in {0, 1, 2, 3, 4, 5, 6, 7, 14} ->
                <<CASE n = 0 -> "Assign" [] n = 1 -> "AssignOr"
                    [] n = 2 -> "AssignAnd" [] n = 3 -> "AssignXor"
                    [] n = 4 -> "Add" [] n = 5 -> "Subtract"
                    [] n = 6 -> "LeastSigStoreAndShift" [] n = 7 -> "SetSubtract"
                    [] n = 14 -> "MostSigStoreAndShift", x, y>>
          [] n1 = 9 /\ n = 0 -> <<"SkipIfUnequalRegisters", x, y>>
          [] n1 = 10 -> <<"SetIndexRegister", nnn>>
          [] n1 = 11 -> <<"Flow", nnn>>
          [] n1 = 12 -> <<"Rand", x, nn>>
          [] n1 = 13 -> <<"Display", x, y, n>>
          [] n1 = 14 /\ nn = 158 -> <<"SkipIfKeyPressed", x>>
          [] n1 = 14 /\ nn = 161 -> <<"SkipIfNotKeyPressed", x>>
          [] n1 = 15 /\ nn = 7 -> <<"GetDelayTimer", x>>
          [] n1 = 15 /\ nn = 10 -> <<"AwaitKeyPress", x>>
          [] n1 = 15 /\ nn = 21 -> <<"SetDelayTimer", x>>
          [] n1 = 15 /\ nn = 24 -> <<"SetSoundTimer", x>>
          [] n1 = 15 /\ nn = 30 -> <<"AddToIndexRegister", x>>
          [] n1 = 15 /\ nn = 41 -> <<"SetIndexRegisterToSpriteLocation", x>>
          [] n1 = 15 /\ nn = 51 -> <<"StoreBinaryCodedDecimal", x>>
          [] n1 = 15 /\ nn = 85 -> <<"RegisterDump", x>>
          [] n1 = 15 /\ nn = 101 -> <<"RegisterLoad", x>>
          [] OTHER -> <<"UNKNOWN", n1, x, y, n>>

\* C10: the decoder yields, for the opcode at PC, the instruction the opcode
\* table lists for it: 00EE is the return, 00E0 the clear-screen, a pattern
\* outside the table the unknown variant with its four nibbles.
C10_DecodeFollowsTable ==
    (Running /\ ~FetchPanics(Self))
    => Decode(Fetch(Self)) = TableDecode(Fetch(Self))

\* C11: a step that executes 00E0 leaves every framebuffer pixel 0 and
\* advances PC by 2.
C11_ClearScreenZeroes ==
    [][(/\ Running
        /\ ~FetchPanics(Self)
        /\ Fetch(Self) = 224
        /\ EmulateCycle)
       => /\ Cleared(gfx')
          /\ program_counter' = program_counter + 2]_vars

\* the key wait Fx0A is the next instruction
AtKeyWait(c) == ~FetchPanics(c) /\ Nib1(c) = 15 /\ Fetch(c) % 256 = 10

\* k is the only pressed key
OnlyPressed(k) == \A j \in 0..(NumKeys - 1) : (keypad[j] # 0) <=> (j = k)

\* C12: when Fx0A runs and key k is the only pressed key, the step writes k
\* into Vx and advances PC by 2.
C12_KeyWaitDeliversIndex ==
    [][(/\ Running
        /\ AtKeyWait(Self)
        /\ EmulateCycle)
       => \A k \in 0..(NumKeys - 1) :
              OnlyPressed(k) =>
                  /\ register'[Nib2(Self)] = k
                  /\ program_counter' = program_counter + 2]_vars

\* no key is pressed
NoKeyPressed == \A j \in 0..(NumKeys - 1) : keypad[j] = 0

\* what a stalled key wait leaves alone, the timers apart
StallFrame ==
    /\ program_counter' = program_counter
    /\ register' = register
    /\ index_register' = index_register
    /\ memory' = memory
    /\ stack' = stack
    /\ stack_pointer' = stack_pointer
    /\ gfx' = gfx

\* C13 as amended: when Fx0A runs and no key is pressed, the step leaves PC,
\* V0..VF, I, memory, the stack, the stack pointer and the framebuffer as
\* they were, and each timer decays by one as in every step.
C13_KeyWaitStalls ==
    [][(/\ Running
        /\ AtKeyWait(Self)
        /\ NoKeyPressed
        /\ EmulateCycle)
       => /\ StallFrame
          /\ delay_timer' = Max(delay_timer - 1, 0)
          /\ sound_timer' = Max(sound_timer - 1, 0)]_vars

\* C13 as stated: when Fx0A runs and no key is pressed, the step leaves PC,
\* V0..VF, I, memory, the stack, the stack pointer, the framebuffer and both
\* timers as they were.
C13_KeyWaitNoEffects ==
    [][(/\ Running
        /\ AtKeyWait(Self)
        /\ NoKeyPressed
        /\ EmulateCycle)
       => /\ StallFrame
          /\ delay_timer' = delay_timer
          /\ sound_timer' = sound_timer]_vars

\* a key wait has stalled once with no key pressed, and the timers, set to 3
\* one instruction apart, have run down to 1 and 2
C13_Witness ==
    /\ Running
    /\ AtKeyWait(Self)
    /\ NoKeyPressed
    /\ debug_current_opcode[1] = "AwaitKeyPress"
    /\ delay_timer = 1
    /\ sound_timer = 2

\* C14: after Cxnn, whatever byte rand::random() returned and whatever
\* memory holds, Vx has no bit set that is not set in the immediate nn.
C14_RandWithinImmediate ==
    [][(/\ Running
        /\ ~FetchPanics(Self)
        /\ Nib1(Self) = 12
        /\ EmulateCycle)
       => BitAnd(register'[Nib2(Self)], 255 - (Fetch(Self) % 256), 8) = 0]_vars

\* C15: emulate_cycle returns draw_flag as the step leaves it; a step that
\* returns does so with true if and only if it executed Dxyn, so the flag
\* of an earlier draw does not carry over to a later step.
C15_DrawFlagIffDraw ==
    [][(/\ Running
        /\ EmulateCycle
        /\ status' = "running")
       => (draw_flag' <=> (~FetchPanics(Self) /\ Nib1(Self) = 13))]_vars

\* a sprite was drawn, and the step after the draw, which executed 00EE,
\* returned false
C15_Witness ==
    /\ Running
    /\ debug_current_opcode = <<"ClearScreen">>
    /\ ~draw_flag
    /\ ~Cleared(gfx)

\* C16: in every step that returns false, the framebuffer after the step is
\* the framebuffer before it.
C16_FalseMeansUnchanged ==
    [][(/\ Running
        /\ EmulateCycle
        /\ status' = "running"
        /\ ~draw_flag')
       => gfx' = gfx]_vars

\* a step that executed 00E0 returned false with pixels of an earlier draw lit
C16_Witness ==
    /\ Running
    /\ debug_current_opcode = <<"Return">>
    /\ ~draw_flag
    /\ ~Cleared(gfx)

\* after the load, byte i of the rom is at 0x200 + i and every other byte of
\* memory is the byte before the load
StoresRom(rom) ==
    /\ RomStart + Len(rom) <= MemSize
    /\ \A i \in 1..Len(rom) : ReadByte(memory', RomStart + i - 1) = rom[i]
    /\ \A a \in (DOMAIN memory \cup DOMAIN memory')
                    \ (RomStart..(RomStart + Len(rom) - 1)) :
           ReadByte(memory', a) = ReadByte(memory, a)

\* C17: a load does not abort, whatever the length of the rom; a rom of at
\* most 3584 bytes is stored byte by byte from 0x200 and every other byte of
\* memory, the font included, stays.
\* (the step that leaves the state new() made is the load)
C17_LoadReported ==
    [][(status = "new" /\ status' # "new")
       => /\ status' # "panicked"
          /\ \E rom \in Roms : StoresRom(rom)]_vars

\* C18: the stack pointer stays in 0..16; a call (2nnn) increments it by 1,
\* a return (00EE) with a stack pointer above 0 decrements it by 1, and no
\* other instruction changes it.
C18_StackPointer ==
    [][/\ stack_pointer' \in 0..StackSize
       /\ (Running /\ ~FetchPanics(Self) /\ EmulateCycle)
            => stack_pointer' =
                   CASE Nib1(Self) = 2 -> stack_pointer + 1
                     [] Fetch(Self) = 238 /\ stack_pointer > 0 -> stack_pointer - 1
                     [] OTHER -> stack_pointer]_vars

\* Dxyn is the next instruction and its n sprite rows lie inside memory
AtDraw(c) ==
    /\ ~FetchPanics(c)
    /\ Nib1(c) = 13
    /\ c.index_register + Nib4(c) <= MemSize

\* C19: after a Dxyn that completes, VF is 1 if at least one pixel, in any
\* of the n rows, went from 1 to 0 in the step, and 0 otherwise (n = 0
\* included).
C19_CollisionWholeSprite ==
    [][(/\ Running
        /\ AtDraw(Self)
        /\ EmulateCycle
        /\ status' = "running")
       => register'[15] =
              IF \E p \in DOMAIN gfx : gfx[p] = 1 /\ ReadByte(gfx', p) = 0
              THEN 1 ELSE 0]_vars

\* the framebuffer indices of the set sprite bits of Dxyn, with wrapping:
\* ((Vy + row) mod 32) * 64 + ((Vx + column) mod 64)
WrappedPixels(c) ==
    LET vx == c.register[Nib2(c)]
        vy == c.register[Nib3(c)]
    IN  {((vy + row) % ScreenHeight) * ScreenWidth + ((vx + col) % ScreenWidth) :
            <<row, col>> \in {rc \in (0..(Nib4(c) - 1)) \X (0..7) :
                Bit(ReadByte(c.memory, c.index_register + rc[1]), 7 - rc[2]) = 1}}

\* C20: Dxyn completes for every Vx and Vy, and the pixels it toggles are
\* those at the wrapped indices of the set sprite bits, and no others.
C20_SpriteWraps ==
    [][(/\ Running
        /\ AtDraw(Self)
        /\ EmulateCycle)
       => /\ status' = "running"
          /\ DOMAIN gfx' \subseteq 0..(GfxSize - 1)
          /\ \A p \in 0..(GfxSize - 1) :
                 ReadByte(gfx', p) = IF p \in WrappedPixels(Self)
                                     THEN 1 - ReadByte(gfx, p)
                                     ELSE ReadByte(gfx, p)]_vars

\* the opcodes of the table that set PC otherwise than by adding 2: jump,
\* call, return, Bnnn and the skips; an opcode outside the table is no
\* instruction
Branches(opcode) ==
    TableDecode(opcode)[1] \in
        {"Jump", "CallSubroutine", "Return", "Flow", "SkipIfEqualAddress",
         "SkipIfNotEqualAddress", "SkipIfEqualRegister", "SkipIfUnequalRegisters",
         "SkipIfKeyPressed", "SkipIfNotKeyPressed", "UNKNOWN"}

\* C21: every step that executes an instruction other than jump, call,
\* return, Bnnn, a skip, or Fx0A with no key pressed increases PC by 2, the
\* no-op 0000 and the clear-screen 00E0 included.
C21_NonBranchingAdvances ==
    [][(/\ Running
        /\ ~FetchPanics(Self)
        /\ ~Branches(Fetch(Self))
        /\ ~(AtKeyWait(Self) /\ NoKeyPressed)
        /\ EmulateCycle)
       => program_counter' = program_counter + 2]_vars

\* C22: a step that executes Bnnn sets PC to nnn + V0 and leaves I and all
\* registers as they were.
C22_JumpWithOffset ==
    [][(/\ Running
        /\ ~FetchPanics(Self)
        /\ Nib1(Self) = 11
        /\ EmulateCycle)
       => /\ program_counter' = (Fetch(Self) % 4096) + register[0]
          /\ index_register' = index_register
          /\ register' = register]_vars

\* C23: add, subtract, reverse subtract, shift right and shift left with VF
\* as an operand compute the flag and the result from the registers as they
\* were before the step: with x = F, VF holds the flag afterwards; with
\* y = F and x # F, Vx holds the result and VF the flag.
C23_FlagRegisterAsOperand ==
    [][(/\ Running
        /\ ~FetchPanics(Self)
        /\ Nib1(Self) = 8
        /\ Nib4(Self) \in FlagNibbles
        /\ (Nib2(Self) = 15 \/ Nib3(Self) = 15)
        /\ EmulateCycle)
       => LET x == Nib2(Self)
              ref == AluReference(Nib4(Self), register[x], register[Nib3(Self)])
          IN  /\ register'[15] = ref.flag
              /\ x # 15 => register'[x] = ref.result]_vars

\* a key is pressed: process_input has set its keypad entry to 1
KeyPressed == \E j \in 0..(NumKeys - 1) : keypad[j] = 1

\* the addresses at which the programs that wait for a key hold an instruction
KeyWaitAddresses == {At(k) : k \in 0..4}

\* C24: while no key is pressed, every step at an Fx0A leaves PC at it; and
\* when the machine is at an Fx0A with a key pressed, the caller going on
\* to invoke steps, then the PC leaves the Fx0A unless the key is released.
C24_KeyWaitUnblocks ==
    /\ [][(Running /\ AtKeyWait(Self) /\ NoKeyPressed /\ EmulateCycle)
            => program_counter' = program_counter]_vars
    /\ \A p \in KeyWaitAddresses :
           (Running /\ AtKeyWait(Self) /\ program_counter = p /\ KeyPressed)
               ~> (program_counter # p \/ ~KeyPressed)

\* the key wait behind the two timers set to 3 stalled for one step and was
\* then passed with a key pressed: the sound timer has run down to 1
C24_Witness ==
    /\ Running
    /\ debug_current_opcode[1] = "AwaitKeyPress"
    /\ program_counter = At(4)
    /\ KeyPressed
    /\ delay_timer = 0
    /\ sound_timer = 1

====
